---- MODULE Spec2Model ----
(***************************************************************************)
(* Model of scripts/search.py: the command-line web search helper.         *)
(*                                                                         *)
(* One run of the script is one behaviour.  Strings that the script        *)
(* manipulates character by character (the command-line arguments and the  *)
(* query) are sequences of one-character strings; strings that are only    *)
(* passed along (field values, exception messages) are TLA+ strings.       *)
(* A line printed with print(json.dumps(v)) is one element of stdout, the  *)
(* JSON value v: <<"object", members>> or <<"array", items>>.              *)
(***************************************************************************)
EXTENDS Integers, Sequences, FiniteSets, TLC

VARIABLES sys_argv, pc, query, calls, outcome, results, exc, stdout, exitCode

vars == <<sys_argv, pc, query, calls, outcome, results, exc, stdout, exitCode>>

(* ------------------------------ bounds --------------------------------- *)

\* Most command-line arguments after the program name.
MaxArgs == 2

\* Most records in one provider response (above the result limit of 6).
MaxRecords == 7

(* ------------------------------ inputs --------------------------------- *)

SeqsUpTo(S, n) == UNION {[1..k -> S] : k \in 0..n}

\* sys.argv[0]
ProgramName == <<"s">>

\* The arguments a caller may pass: the empty string and a number-like
\* argument with a leading space.
ArgPool == {<<>>, <<" ", "1">>}

\* A provider record is either a dict (isDict) or an object without .get.
FullRecord == [isDict |-> TRUE, d |-> ("title" :> "A" @@ "href" :> "U" @@ "body" :> "B")]

PartialRecord == [isDict |-> TRUE, d |-> ("href" :> "V" @@ "date" :> "D")]

NoneRecord == [isDict |-> FALSE, d |-> <<>>]

RecordPool == {FullRecord, PartialRecord, NoneRecord}

\* str(e) of the exceptions the provider call may raise.
ProviderErrors == {"timeout", ""}

\* str(e) of the AttributeError raised by r.get on a record that has no .get.
AttributeErrorMsg == "'NoneType' object has no attribute 'get'"

NoOutcome == [kind |-> "none", records |-> <<>>, msg |-> ""]

Returned(rs) == [kind |-> "return", records |-> rs, msg |-> ""]

Raised(m) == [kind |-> "raise", records |-> <<>>, msg |-> m]

\* What DDGS().text(...) may do: return a finite list or raise an Exception.
\* The provider is an external dependency, so the list is not assumed to
\* honour max_results.
ProviderOutcomes ==
    {Returned(rs) : rs \in SeqsUpTo(RecordPool, MaxRecords)}
        \cup {Raised(m) : m \in ProviderErrors}

(* --------------------------- pure functions ---------------------------- *)

\* search(query, max_results=6)
DefaultMaxResults == 6

\* Mutant: empty arguments are dropped before joining.
RECURSIVE Join_SkipEmpty(_, _)
Join_SkipEmpty(sep, xs) ==
    LET ys == SelectSeq(xs, LAMBDA x : x # <<>>)
    IN  IF ys = <<>> THEN <<>>
        ELSE IF Len(ys) = 1 THEN ys[1]
        ELSE ys[1] \o sep \o Join_SkipEmpty(sep, Tail(ys))

\* sep.join(xs)
RECURSIVE Join(_, _)
Join(sep, xs) ==
    IF xs = <<>> THEN <<>>
    ELSE IF Len(xs) = 1 THEN xs[1]
    ELSE xs[1] \o sep \o Join(sep, Tail(xs))

\* r.get(key, default)
Get(r, key, default) == IF key \in DOMAIN r.d THEN r.d[key] ELSE default

\* Mutant: url is read from the key "url" instead of "href".
MapRecord_WrongKey(r) ==
    [title |-> Get(r, "title", ""),
     url |-> Get(r, "url", ""),
     snippet |-> Get(r, "body", "")]

\* Mutant: a field whose source field is absent is left out.
MapRecord_OmitAbsent(r) ==
    LET src == ("title" :> "title" @@ "url" :> "href" @@ "snippet" :> "body")
    IN  [k \in {f \in DOMAIN src : src[f] \in DOMAIN r.d} |-> r.d[src[k]]]

\* The dict literal of the list comprehension.
MapRecord(r) ==
    [title |-> Get(r, "title", ""),
     url |-> Get(r, "href", ""),
     snippet |-> Get(r, "body", "")]

\* json.dumps of a dict and of a list
JsonObject(members) == <<"object", members>>

JsonArray(items) == <<"array", items>>

ErrorPayload(m) == JsonObject([error |-> m])

(* ------------------------------- state --------------------------------- *)

Init ==
    /\ sys_argv \in {<<ProgramName>> \o args : args \in SeqsUpTo(ArgPool, MaxArgs)}
    /\ pc = "main"
    /\ query = <<>>
    /\ calls = <<>>
    /\ outcome = NoOutcome
    /\ results = <<>>
    /\ exc = ""
    /\ stdout = <<>>
    /\ exitCode = -1

(* ------------------------------ actions -------------------------------- *)

\* Mutant: the program name is not counted.
NoArguments_OffByOne == Len(sys_argv) < 1

\* len(sys.argv) < 2
NoArguments == Len(sys_argv) < 2

\* Mutant: the error is printed but sys.exit(1) is missing, so the run goes on
\* to join the (empty) arguments and call search.
NoQuery_NoExit ==
    /\ pc = "main"
    /\ NoArguments
    /\ stdout' = Append(stdout, ErrorPayload("No query provided"))
    /\ query' = Join(<<" ">>, Tail(sys_argv))
    /\ pc' = "call"
    /\ UNCHANGED <<sys_argv, calls, outcome, results, exc, exitCode>>

\* if len(sys.argv) < 2: print(json.dumps({"error": ...})); sys.exit(1)
NoQuery ==
    /\ pc = "main"
    /\ NoArguments
    /\ stdout' = Append(stdout, ErrorPayload("No query provided"))
    /\ exitCode' = 1
    /\ pc' = "exit"
    /\ UNCHANGED <<sys_argv, query, calls, outcome, results, exc>>

\* query = " ".join(sys.argv[1:]); results = search(query)   (entering search)
JoinArgs ==
    /\ pc = "main"
    /\ ~NoArguments
    /\ query' = Join(<<" ">>, Tail(sys_argv))
    /\ pc' = "call"
    /\ UNCHANGED <<sys_argv, calls, outcome, results, exc, stdout, exitCode>>

\* results = DDGS().text(query, max_results=max_results)
CallProvider ==
    /\ pc = "call"
    /\ calls' = Append(calls, [query |-> query, max_results |-> DefaultMaxResults])
    /\ \E out \in ProviderOutcomes :
          /\ outcome' = out
          /\ IF out.kind = "raise"
                THEN pc' = "except" /\ exc' = out.msg
                ELSE pc' = "map" /\ exc' = exc
    /\ UNCHANGED <<sys_argv, query, results, stdout, exitCode>>

\* Mutant: records without .get are skipped instead of failing the run.
MapResults_SkipMalformed ==
    /\ pc = "map"
    /\ pc' = "print"
    /\ LET dicts == SelectSeq(outcome.records, LAMBDA r : r.isDict)
       IN  results' = [i \in 1..Len(dicts) |-> MapRecord(dicts[i])]
    /\ UNCHANGED <<sys_argv, query, calls, outcome, exc, stdout, exitCode>>

\* return [{...} for r in results]: the first record without .get raises
\* AttributeError and the list built so far is dropped.
MapResults ==
    /\ pc = "map"
    /\ IF \E i \in 1..Len(outcome.records) : ~outcome.records[i].isDict
          THEN /\ pc' = "except"
               /\ exc' = AttributeErrorMsg
               /\ results' = results
          ELSE /\ pc' = "print"
               /\ exc' = exc
               /\ results' = [i \in 1..Len(outcome.records) |-> MapRecord(outcome.records[i])]
    /\ UNCHANGED <<sys_argv, query, calls, outcome, stdout, exitCode>>

\* Mutant: the handler reports the error but exits with status 0.
HandleException_ExitZero ==
    /\ pc = "except"
    /\ stdout' = Append(stdout, ErrorPayload(exc))
    /\ exitCode' = 0
    /\ pc' = "exit"
    /\ UNCHANGED <<sys_argv, query, calls, outcome, results, exc>>

\* Mutant: the handler exits without printing the error.
HandleException_Silent ==
    /\ pc = "except"
    /\ exitCode' = 1
    /\ pc' = "exit"
    /\ UNCHANGED <<sys_argv, query, calls, outcome, results, exc, stdout>>

\* Mutant: the handler calls the provider again.
HandleException_Retry ==
    /\ pc = "except"
    /\ pc' = "call"
    /\ UNCHANGED <<sys_argv, query, calls, outcome, results, exc, stdout, exitCode>>

\* except Exception as e: print(json.dumps({"error": str(e)})); sys.exit(1)
HandleException ==
    /\ pc = "except"
    /\ stdout' = Append(stdout, ErrorPayload(exc))
    /\ exitCode' = 1
    /\ pc' = "exit"
    /\ UNCHANGED <<sys_argv, query, calls, outcome, results, exc>>

\* print(json.dumps(results)), then the interpreter exits with status 0
PrintResults ==
    /\ pc = "print"
    /\ stdout' = Append(stdout, JsonArray(results))
    /\ exitCode' = 0
    /\ pc' = "exit"
    /\ UNCHANGED <<sys_argv, query, calls, outcome, results, exc>>

Next ==
    \/ NoQuery
    \/ JoinArgs
    \/ CallProvider
    \/ MapResults
    \/ HandleException
    \/ PrintResults

Spec == Init /\ [][Next]_vars

\* The run is a single thread that executes its next statement; a provider
\* call that returns or raises does so eventually.
FairSpec == Spec /\ WF_vars(Next)

(* --------------------------- vocabulary -------------------------------- *)

\* sys.argv[1:]
Args == Tail(sys_argv)

Exited == pc = "exit"

IsArrayLine(line) == line[1] = "array"

IsErrorLine(line) == line[1] = "object" /\ DOMAIN line[2] = {"error"}

OutputFields == {"title", "url", "snippet"}

AllDicts(rs) == \A i \in 1..Len(rs) : rs[i].isDict

\* The run ended by printing one result array.
PrintedArray == Exited /\ Len(stdout) = 1 /\ IsArrayLine(stdout[1])

\* Position of the character before argument i in the joined query.
RECURSIVE Offset(_, _)
Offset(as, i) == IF i = 1 THEN 0 ELSE Offset(as, i - 1) + Len(as[i - 1]) + 1

\* q is as[1], " ", as[2], " ", ..., as[n], character by character.
IsJoined(q, as) ==
    /\ Len(q) = Offset(as, Len(as)) + Len(as[Len(as)])
    /\ \A i \in 1..Len(as) :
          /\ \A k \in 1..Len(as[i]) : q[Offset(as, i) + k] = as[i][k]
          /\ i < Len(as) => q[Offset(as, i) + Len(as[i]) + 1] = " "

(* ------------------------------ claims --------------------------------- *)

\* C1: with an empty argument list the provider is never invoked, and the run
\* ends with exactly {"error": "No query provided"} on standard output and
\* exit code 1.
C1_NoQueryProvided ==
    Args = <<>> =>
        /\ calls = <<>>
        /\ Exited =>
              /\ stdout = <<(<<"object", [error |-> "No query provided"]>>)>>
              /\ exitCode = 1

C1_Witness == Args = <<>> /\ Exited /\ stdout # <<>>

\* C2: if the provider call raises, no result array is ever printed, and the
\* run ends with {"error": <the raised message>} as its only output and exit
\* code 1.
C2_ProviderRaises ==
    outcome.kind = "raise" =>
        /\ \A i \in 1..Len(stdout) : ~IsArrayLine(stdout[i])
        /\ Exited =>
              /\ stdout = <<(<<"object", [error |-> outcome.msg]>>)>>
              /\ exitCode = 1

C2_Witness == outcome.kind = "raise" /\ outcome.msg = "timeout" /\ Exited /\ exitCode = 1

\* C3: on a successful response with N records the printed array has length N
\* when N <= 6 and length 6 when N > 6.
C3_Truncation ==
    (outcome.kind = "return" /\ PrintedArray) =>
        Len(stdout[1][2]) =
            (IF Len(outcome.records) <= 6 THEN Len(outcome.records) ELSE 6)

C5_QueryJoined ==
    /\ \A n \in 1..Len(calls) :
          /\ calls[n].max_results = 6
          /\ Args # <<>> => IsJoined(calls[n].query, Args)
    /\ (Args # <<>> /\ Exited) => calls # <<>>

C5_Witness ==
    /\ Len(calls) = 1
    /\ Len(Args) = 2
    /\ Args[1] = <<>>
    /\ Args[2] = <<" ", "1">>
    /\ calls[1].query = <<" ", " ", "1">>

\* C6: on a successful provider call the run ends with exit code 0 and one
\* printed array in provider order: record i of the output has title, url and
\* snippet from title, href and body of provider record i, none reordered,
\* duplicated or skipped.
C6_OrderPreserved ==
    (outcome.kind = "return" /\ AllDicts(outcome.records) /\ Exited) =>
        /\ exitCode = 0
        /\ Len(stdout) = 1
        /\ IsArrayLine(stdout[1])
        /\ Len(stdout[1][2]) = Len(outcome.records)
        /\ \A i \in 1..Len(outcome.records) :
              LET rec == stdout[1][2][i]
                  d == outcome.records[i].d
              IN  /\ rec.title = (IF "title" \in DOMAIN d THEN d["title"] ELSE "")
                  /\ rec.url = (IF "href" \in DOMAIN d THEN d["href"] ELSE "")
                  /\ rec.snippet = (IF "body" \in DOMAIN d THEN d["body"] ELSE "")

C6_Witness ==
    /\ PrintedArray
    /\ exitCode = 0
    /\ Len(outcome.records) = 3
    /\ outcome.records[1] = PartialRecord
    /\ outcome.records[2] = FullRecord
    /\ stdout[1][2][1].url = "V"
    /\ stdout[1][2][2].url = "U"

\* C7: a run that has ended is either a Success (exit code 0, one JSON array
\* on standard output) or a Failure (exit code 1, one {"error": ...} object on
\* standard output), never a mixture and never silent.
C7_Success == exitCode = 0 /\ Len(stdout) = 1 /\ IsArrayLine(stdout[1])

C7_Failure ==
    /\ exitCode = 1
    /\ Len(stdout) = 1
    /\ IsErrorLine(stdout[1])
    /\ stdout[1][2].error \in STRING

C7_TwoOutcomes ==
    Exited => (C7_Success /\ ~C7_Failure) \/ (C7_Failure /\ ~C7_Success)

C7_Witness == Exited /\ C7_Failure /\ outcome.kind = "return"

\* C8: the provider is invoked at most once, and once a provider call has
\* failed the run only handles the failure and ends as a Failure.
C8_NoRetry ==
    /\ Len(calls) <= 1
    /\ outcome.kind = "raise" =>
          /\ pc \in {"except", "exit"}
          /\ Exited => exitCode = 1

C8_Witness == outcome.kind = "raise" /\ Exited /\ Len(calls) = 1 /\ outcome.msg = ""

\* C9: when the provider returns a response with a record that does not
\* support field lookup, at any position, the run ends with
\* {"error": <description of the lookup failure>} as its only output and exit
\* code 1, and no record mapped before the failing one is printed.
C9_MalformedResponse ==
    (outcome.kind = "return" /\ ~AllDicts(outcome.records)) =>
        /\ \A i \in 1..Len(stdout) : ~IsArrayLine(stdout[i])
        /\ Exited =>
              /\ stdout = <<(<<"object", [error |-> "'NoneType' object has no attribute 'get'"]>>)>>
              /\ exitCode = 1

C9_Witness ==
    /\ Exited
    /\ outcome.kind = "return"
    /\ Len(outcome.records) = 3
    /\ outcome.records[1].isDict
    /\ outcome.records[2].isDict
    /\ ~outcome.records[3].isDict
    /\ IsErrorLine(stdout[1])

\* C10: every run ends, and its steps come in a fixed order: the argument
\* check, then (only with arguments present) the single provider call, then
\* exactly one write to standard output, then exit; nothing is written
\* before the provider call has completed.
C10_Order ==
    /\ pc = "main" => calls = <<>> /\ stdout = <<>>
    /\ calls # <<>> => Args # <<>>
    /\ Len(calls) <= 1
    /\ stdout # <<>> => Exited
    /\ Exited => Len(stdout) = 1
    /\ (stdout # <<>> /\ Args # <<>>) => Len(calls) = 1 /\ outcome.kind # "none"

C10_Terminates == []C10_Order /\ <>Exited

C10_Witness == Exited /\ exitCode = 0 /\ Len(calls) = 1 /\ Len(stdout) = 1 /\ Len(Args) = 2

====
